---------------------------- MODULE Spec2Model ----------------------------
(***************************************************************************)
(* ChatHistoryUI: the terminal browser of the chat-history store.          *)
(*                                                                         *)
(* The state is the TableUI object (src/ChatHistoryUI.py), the messages    *)
(* table it reads, and the terminal it draws on.  Every key handler of     *)
(* TableUI._bind_keys and the body of the _periodic_refresh loop is one    *)
(* action; the bot inserting records, another process deleting records     *)
(* and the terminal being resized are the environment's actions.           *)
(*                                                                         *)
(* Conventions.  A row is the 8-tuple sqlite3 returns for                  *)
(*   (id, user_id, user_name, channel_id, is_dm, role, content, timestamp) *)
(* so the Python index i is the TLA+ index i + 1.  Text that is wrapped    *)
(* or shown (content) is a sequence of one-character strings.  Python's    *)
(* None is the string "None" for a column name and <<"None">> for a text   *)
(* (no text has that shape).  A timestamp is the number of its instant:    *)
(* ISO-8601 strings of one format order as their instants do.              *)
(*                                                                         *)
(* The cells of the table, chunk_text and on_message of the bot            *)
(* (src/LlamaGPT.py) have specifications of their own further down; the    *)
(* texts they cut and format are strings.                                  *)
(***************************************************************************)
EXTENDS Integers, Sequences, FiniteSets, TLC

VARIABLES
    store,            \* the rows of table messages (a set of 8-tuples)
    next_id,          \* the id AUTOINCREMENT gives the next inserted row
    term,             \* what os.get_terminal_size() returns now
    cols,             \* ui.cols
    rows,             \* ui.rows
    sort_col,         \* ui.sort_col
    last_sort_col,    \* ui.last_sort_col
    sort_descending,  \* ui.sort_descending
    selected_row,     \* ui.selected_row
    selected_col,     \* ui.selected_col
    overlay_content,  \* ui.overlay_content
    overlay_offset,   \* ui.overlay_offset
    body_height,      \* ui.body_height
    body_width,       \* ui.body_width
    running,          \* the application runs: event.app.exit() has not been called
    last,             \* what the event handled last asked of its collaborators
    db_file,          \* what is at DB_PATH when the process starts
    phase,            \* the process: before TableUI(), running it, or ended by a startup error
    refresh_task,     \* the loop of _periodic_refresh is running
    in_flight,        \* the result of a query the event loop is waiting for
    input,            \* the arguments of a function called on its own
    output,           \* what that function returned
    dm_histories,     \* LlamaGPT.dm_histories: author id -> deque of messages
    channel_histories,\* LlamaGPT.channel_histories: channel id -> deque of messages
    task,             \* the on_message coroutine in flight: where it waits, its locals
    log,              \* what the bot did so far, in order
    arrived           \* how many messages the bot has received

view == <<cols, rows, sort_col, last_sort_col, sort_descending, selected_row,
          selected_col, overlay_content, overlay_offset, body_height, body_width>>
env == <<store, next_id, term>>
scratch == <<input, output>>
bot == <<dm_histories, channel_histories, task, log, arrived>>
aside == <<in_flight, scratch, bot>>
browser == <<term, view, running, last, db_file, phase, refresh_task, in_flight>>
sys == <<db_file, phase, refresh_task, aside>>
vars == <<store, next_id, term, cols, rows, sort_col, last_sort_col,
          sort_descending, selected_row, selected_col, overlay_content,
          overlay_offset, body_height, body_width, running, last, db_file,
          phase, refresh_task, in_flight, input, output, dm_histories,
          channel_histories, task, log, arrived>>

-----------------------------------------------------------------------------
(* Bounds of the model *)

\* how many records the bot inserts in one behaviour
MaxInserts == 2

-----------------------------------------------------------------------------
(* Python helpers *)

None == "None"
NoText == <<None>>
NoQuery == <<>>

Min(a, b) == IF a <= b THEN a ELSE b
Max(a, b) == IF a >= b THEN a ELSE b

\* seq[i] of a Python list: i in [-len, len-1], a negative i counts from the end
InRange(seq, i) == -Len(seq) <= i /\ i < Len(seq)
At(seq, i) == IF i >= 0 THEN seq[i + 1] ELSE seq[Len(seq) + i + 1]
\* del seq[i]
Del(seq, i) ==
    LET k == IF i >= 0 THEN i + 1 ELSE Len(seq) + i + 1
    IN  SubSeq(seq, 1, k - 1) \o SubSeq(seq, k + 1, Len(seq))
\* seq[start:end] for 0 <= start, 0 <= end
Slice(seq, start, end) == SubSeq(seq, start + 1, Min(end, Len(seq)))

-----------------------------------------------------------------------------
(* The store: table messages *)

\* cursor.description of SELECT * FROM messages
Schema == <<"id", "user_id", "user_name", "channel_id", "is_dm", "role",
            "content", "timestamp">>

_VISIBLE_COLS == <<"user_name", "is_dm", "role", "timestamp">>

\* list.index(name)
IndexOf(seq, name) == (CHOOSE i \in 1..Len(seq) : seq[i] = name) - 1

\* The TEXT values of the sorted columns, in SQLite's BINARY collation order
Texts == <<"alice", "assistant", "bob", "user">>
Collate(s) == CHOOSE i \in 1..Len(Texts) : Texts[i] = s

\* Message contents: six one-word lines, and one line of a long and a short word
SixLines == <<"a", "\n", "b", "\n", "c", "\n", "d", "\n", "e", "\n", "f">>
TwoWords == <<"a", "b", "c", "d", "e", " ", "f", "g">>

\* The record the bot's id-th INSERT stores.  Inserts 2k and 2k+1 are the same
\* message stored twice within one clock instant: they differ in id only.
Record(id) ==
    LET k == id \div 2
    IN  IF k % 2 = 0
        THEN <<id, 1001, "alice", 2001, 1, "assistant", SixLines, k + 1>>
        ELSE <<id, 1002, "bob", 2002, 0, "user", TwoWords, k + 1>>

\* The value ORDER BY compares for a column
SortKey(row, column) ==
    LET v == row[IndexOf(Schema, column) + 1]
    IN  IF column \in {"user_name", "role"} THEN Collate(v) ELSE v

\* LIMIT 100
QueryLimit == 100

\* Every sequence of all the elements of a set
RECURSIVE Perms(_)
Perms(S) ==
    IF S = {} THEN {<<>>}
    ELSE UNION {{<<r>> \o p : p \in Perms(S \ {r})} : r \in S}

\* The rows of db, their keys within lo..hi, in the order of their keys: SQL
\* leaves the order of rows with equal keys open, so every order of them is
\* a result
RECURSIVE RowsByKey(_, _, _, _, _)
RowsByKey(db, column, lo, hi, descending) ==
    IF db = {} THEN {<<>>}
    ELSE IF lo = hi THEN Perms(db)
    ELSE LET mid == (lo + hi) \div 2
             low == RowsByKey({r \in db : SortKey(r, column) <= mid},
                              column, lo, mid, descending)
             high == RowsByKey({r \in db : SortKey(r, column) > mid},
                               column, mid + 1, hi, descending)
         IN  IF descending
             THEN {p \o q : p \in high, q \in low}
             ELSE {p \o q : p \in low, q \in high}

\* SELECT * FROM messages ORDER BY column DESC|ASC, before the LIMIT
Sorted(db, column, descending) ==
    LET keys == {SortKey(r, column) : r \in db}
    IN  IF db = {} THEN {<<>>}
        ELSE RowsByKey(db, column,
                       CHOOSE x \in keys : \A y \in keys : x <= y,
                       CHOOSE x \in keys : \A y \in keys : x >= y,
                       descending)

\* _query with the direction dropped: always ORDER BY ... DESC
QueryAlwaysDescending(db, order_by, descending) ==
    LET column == IF order_by = None THEN "timestamp" ELSE order_by
    IN  {<<Schema, SubSeq(f, 1, Min(Len(f), QueryLimit))>> :
            f \in Sorted(db, column, TRUE)}

\* _query without LIMIT 100
QueryUncapped(db, order_by, descending) ==
    LET column == IF order_by = None THEN "timestamp" ELSE order_by
    IN  {<<Schema, f>> : f \in Sorted(db, column, descending)}

\* SELECT * FROM messages ORDER BY column DESC|ASC LIMIT 100
_query(db, order_by, descending) ==
    LET column == IF order_by = None THEN "timestamp" ELSE order_by
    IN  {<<Schema, SubSeq(f, 1, Min(Len(f), QueryLimit))>> :
            f \in Sorted(db, column, descending)}

-----------------------------------------------------------------------------
(* Text: str.splitlines and textwrap.wrap *)

IsSpace(chunk) == chunk # <<>> /\ chunk[1] = " "

\* str.splitlines(): the lines between "\n", no empty last line
RECURSIVE SplitFrom(_, _, _)
SplitFrom(text, cur, acc) ==
    IF text = <<>> THEN (IF cur = <<>> THEN acc ELSE Append(acc, cur))
    ELSE IF Head(text) = "\n" THEN SplitFrom(Tail(text), <<>>, Append(acc, cur))
    ELSE SplitFrom(Tail(text), Append(cur, Head(text)), acc)
splitlines(text) == SplitFrom(text, <<>>, <<>>)

\* TextWrapper._split: maximal runs of spaces and of other characters
RECURSIVE ChunksFrom(_, _, _)
ChunksFrom(text, cur, acc) ==
    IF text = <<>> THEN (IF cur = <<>> THEN acc ELSE Append(acc, cur))
    ELSE IF cur = <<>> \/ (Head(text) = " ") = IsSpace(cur)
         THEN ChunksFrom(Tail(text), Append(cur, Head(text)), acc)
         ELSE ChunksFrom(Tail(text), <<Head(text)>>, Append(acc, cur))
Chunks(text) == ChunksFrom(text, <<>>, <<>>)

RECURSIVE Concat(_)
Concat(chunks) == IF chunks = <<>> THEN <<>> ELSE Head(chunks) \o Concat(Tail(chunks))

RECURSIVE SumLen(_)
SumLen(chunks) == IF chunks = <<>> THEN 0 ELSE Len(Head(chunks)) + SumLen(Tail(chunks))

\* the inner loop of _wrap_chunks: take chunks while they fit
RECURSIVE Fill(_, _, _)
Fill(chunks, line, width) ==
    IF chunks # <<>> /\ SumLen(line) + Len(Head(chunks)) <= width
    THEN Fill(Tail(chunks), Append(line, Head(chunks)), width)
    ELSE <<line, chunks>>

\* TextWrapper._wrap_chunks with the defaults (drop_whitespace,
\* break_long_words), for width >= 1
RECURSIVE WrapChunks(_, _, _)
WrapChunks(chunks, width, lines) ==
    IF chunks = <<>> THEN lines
    ELSE
      LET start == IF IsSpace(Head(chunks)) /\ lines # <<>> THEN Tail(chunks) ELSE chunks
          filled == Fill(start, <<>>, width)
          line1 == filled[1]
          rest1 == filled[2]
          long == rest1 # <<>> /\ Len(Head(rest1)) > width
          space_left == width - SumLen(line1)
          line2 == IF long THEN Append(line1, SubSeq(Head(rest1), 1, space_left))
                   ELSE line1
          rest2 == IF long
                   THEN <<SubSeq(Head(rest1), space_left + 1, Len(Head(rest1)))>>
                        \o Tail(rest1)
                   ELSE rest1
          line3 == IF line2 # <<>> /\ IsSpace(line2[Len(line2)])
                   THEN SubSeq(line2, 1, Len(line2) - 1) ELSE line2
      IN  WrapChunks(rest2, width,
                     IF line3 # <<>> THEN Append(lines, Concat(line3)) ELSE lines)
wrap(raw, width) == WrapChunks(Chunks(raw), width, <<>>)

\* [line for raw in content.splitlines() for line in textwrap.wrap(raw, width)]
RECURSIVE WrapAll(_, _)
WrapAll(raw_lines, width) ==
    IF raw_lines = <<>> THEN <<>>
    ELSE wrap(Head(raw_lines), width) \o WrapAll(Tail(raw_lines), width)
Wrapped(content, width) == WrapAll(splitlines(content), width)

-----------------------------------------------------------------------------
(* The terminal *)

\* os.get_terminal_size() raises OSError: no terminal is attached
NoTerminal == [columns |-> 0, lines |-> 0]
\* the sizes the terminal is resized between
TermSizes == {[columns |-> 80, lines |-> 5], [columns |-> 3, lines |-> 6]}

\* TableUI._refresh_dimensions: <<body_height, body_width>>
_refresh_dimensions(size) ==
    IF size = NoTerminal THEN <<23, 80>> ELSE <<size.lines - 1, size.columns>>

-----------------------------------------------------------------------------
(* What the event handled last did besides changing the state: the number of
   app.invalidate() calls, the number of _query calls, whether it raised *)
Did(redraws, queries) == [redraws |-> redraws, queries |-> queries, raised |-> FALSE]
Raised == [redraws |-> 0, queries |-> 0, raised |-> TRUE]

\* a call that has not returned, and one that returned value
NotReturned == [returned |-> FALSE]
Returned(value) == [returned |-> TRUE, value |-> value]

\* no function is being called on its own
NoCall ==
    /\ input = <<>>
    /\ output = NotReturned

\* no on_message coroutine is in flight
NoTask == [pc |-> "idle"]

\* the bot process is not part of the behaviours: it shows only as the
\* records it inserts
BotOff ==
    /\ dm_histories = <<>>
    /\ channel_histories = <<>>
    /\ task = NoTask
    /\ log = <<>>
    /\ arrived = 0

\* TableUI.__init__ and TableUI.run: the object after its construction on
\* the store, the refresh task created and the application running
Constructed ==
    /\ term \in TermSizes \cup {NoTerminal}
    /\ sort_col = None
    /\ last_sort_col = None
    /\ sort_descending = TRUE
    /\ \E res \in _query(store, sort_col, sort_descending) :
          /\ cols = res[1]
          /\ rows = res[2]
    /\ selected_row = 0
    /\ selected_col = 0
    /\ overlay_content = NoText
    /\ overlay_offset = 0
    /\ body_height = _refresh_dimensions(term)[1]
    /\ body_width = _refresh_dimensions(term)[2]
    /\ running = TRUE
    /\ last = Did(0, 1)
    /\ db_file = "ok"
    /\ phase = "up"
    /\ refresh_task = TRUE
    /\ in_flight = NoQuery
    /\ NoCall
    /\ BotOff

\* The browser starts on a store holding the bot's first k records
Init ==
    /\ \E k \in 0..MaxInserts :
          /\ store = {Record(i) : i \in 1..k}
          /\ next_id = k + 1
    /\ Constructed

\* The browser starts on a store whose two records are one message stored
\* twice (the bot's inserts 2 and 3, the first record deleted since)
InitDuplicates ==
    /\ store = {Record(2), Record(3)}
    /\ next_id = 4
    /\ Constructed

-----------------------------------------------------------------------------
(* Key handlers: TableUI._bind_keys *)

\* selected_col after left and right
ColLeft(col) == Max(0, col - 1)
ColRight(col) == Min(Len(_VISIBLE_COLS) - 1, col + 1)

\* selected_row after up and down on n cached rows
RowUp(row) == Max(0, row - 1)
\* down that wraps to the first row instead of stopping at the last
RowDownWraps(row, n) == IF n = 0 THEN 0 ELSE (row + 1) % n
RowDown(row, n) == Min(n - 1, row + 1)

\* max_offset of _move_down, from the dimensions cached by the last render
MaxOffset(content, height, width) == Max(0, Len(Wrapped(content, width)) - height)

\* overlay_offset after up and down
OffsetUp(offset) == Max(0, offset - 1)
OffsetDown(offset, max_offset) == Min(max_offset, offset + 1)

_move_left ==
    /\ running
    /\ UNCHANGED sys
    /\ IF overlay_content = NoText
       THEN /\ selected_col' = ColLeft(selected_col)
            /\ last' = Did(1, 0)
       ELSE /\ UNCHANGED selected_col
            /\ last' = Did(0, 0)
    /\ UNCHANGED <<env, cols, rows, sort_col, last_sort_col, sort_descending,
                   selected_row, overlay_content, overlay_offset, body_height,
                   body_width, running>>

_move_right ==
    /\ running
    /\ UNCHANGED sys
    /\ IF overlay_content = NoText
       THEN /\ selected_col' = ColRight(selected_col)
            /\ last' = Did(1, 0)
       ELSE /\ UNCHANGED selected_col
            /\ last' = Did(0, 0)
    /\ UNCHANGED <<env, cols, rows, sort_col, last_sort_col, sort_descending,
                   selected_row, overlay_content, overlay_offset, body_height,
                   body_width, running>>

\* up without the overlay test: it moves the row selection under the overlay too
MoveUpUnderOverlay ==
    /\ running
    /\ UNCHANGED sys
    /\ selected_row' = RowUp(selected_row)
    /\ overlay_offset' = IF overlay_content = NoText THEN overlay_offset
                         ELSE OffsetUp(overlay_offset)
    /\ last' = Did(1, 0)
    /\ UNCHANGED <<env, cols, rows, sort_col, last_sort_col, sort_descending,
                   selected_col, overlay_content, body_height, body_width, running>>

_move_up ==
    /\ running
    /\ UNCHANGED sys
    /\ IF overlay_content = NoText
       THEN /\ selected_row' = RowUp(selected_row)
            /\ UNCHANGED overlay_offset
       ELSE /\ overlay_offset' = OffsetUp(overlay_offset)
            /\ UNCHANGED selected_row
    /\ last' = Did(1, 0)
    /\ UNCHANGED <<env, cols, rows, sort_col, last_sort_col, sort_descending,
                   selected_col, overlay_content, body_height, body_width, running>>

_move_down ==
    /\ running
    /\ UNCHANGED sys
    /\ UNCHANGED <<env, cols, rows, sort_col, last_sort_col, sort_descending,
                   selected_col, overlay_content, body_height, body_width, running>>
    /\ last' = Did(1, 0)
    /\ IF overlay_content = NoText
       THEN /\ selected_row' = RowDown(selected_row, Len(rows))
            /\ UNCHANGED overlay_offset
       ELSE /\ UNCHANGED selected_row
            /\ overlay_offset' =
                  OffsetDown(overlay_offset,
                             MaxOffset(overlay_content, body_height, body_width))

\* rows[selected_row] raises IndexError out of range: nothing is assigned
_toggle_overlay ==
    /\ running
    /\ UNCHANGED sys
    /\ IF overlay_content = NoText
       THEN IF InRange(rows, selected_row)
            THEN /\ overlay_content' = At(rows, selected_row)[6 + 1]
                 /\ overlay_offset' = 0
                 /\ last' = Did(1, 0)
            ELSE /\ UNCHANGED <<overlay_content, overlay_offset>>
                 /\ last' = Raised
       ELSE /\ overlay_content' = NoText
            /\ UNCHANGED overlay_offset
            /\ last' = Did(1, 0)
    /\ UNCHANGED <<env, cols, rows, sort_col, last_sort_col, sort_descending,
                   selected_row, selected_col, body_height, body_width, running>>

\* SELECT id FROM messages WHERE user_id=? AND ... AND timestamp=?
Matching(db, row) == {r \in db : \A i \in 2..8 : r[i] = row[i]}

\* selected_row after del rows[selected_row]
ClampAfterDelete(sel, n) == IF sel >= n THEN Max(0, n - 1) ELSE sel

\* the delete key without its overlay check
DeleteUnderOverlay ==
    /\ running
    /\ UNCHANGED sys
    /\ IF ~InRange(rows, selected_row)
       THEN /\ UNCHANGED <<store, rows, selected_row>>
            /\ last' = Raised
       ELSE LET row == At(rows, selected_row)
            IN  /\ IF Matching(store, row) = {}
                   THEN UNCHANGED store
                   ELSE \E result \in Matching(store, row) :
                           store' = {r \in store : r[1] # result[1]}
                /\ rows' = Del(rows, selected_row)
                /\ selected_row' = ClampAfterDelete(selected_row, Len(rows'))
                /\ last' = Did(1, 0)
    /\ UNCHANGED <<next_id, term, cols, sort_col, last_sort_col, sort_descending,
                   selected_col, overlay_content, overlay_offset, body_height,
                   body_width, running>>

_delete_row ==
    /\ running
    /\ UNCHANGED sys
    /\ IF overlay_content # NoText
       THEN /\ UNCHANGED <<store, rows, selected_row>>
            /\ last' = Did(0, 0)
       ELSE IF ~InRange(rows, selected_row)
       THEN /\ UNCHANGED <<store, rows, selected_row>>
            /\ last' = Raised
       ELSE LET row == At(rows, selected_row)
            IN  \* fetchone(): one of the matching records, SQL does not say which
                /\ IF Matching(store, row) = {}
                   THEN UNCHANGED store
                   ELSE \E result \in Matching(store, row) :
                           store' = {r \in store : r[1] # result[1]}
                /\ rows' = Del(rows, selected_row)
                /\ selected_row' = ClampAfterDelete(selected_row, Len(rows'))
                /\ last' = Did(1, 0)
    /\ UNCHANGED <<next_id, term, cols, sort_col, last_sort_col, sort_descending,
                   selected_col, overlay_content, overlay_offset, body_height,
                   body_width, running>>

\* the direction flipped on every press, whatever the column
AlwaysFlip(last_col, col_name, descending) == ~descending

\* sort_descending after a press of t on col_name
NextDescending(last_col, col_name, descending) ==
    IF last_col = col_name THEN ~descending ELSE TRUE

\* the sort key that only turns the sort state and keeps the cached rows
SortKeepsRows ==
    /\ running
    /\ UNCHANGED sys
    /\ LET col_name == _VISIBLE_COLS[selected_col + 1]
       IN  /\ sort_col' = col_name
           /\ sort_descending' = NextDescending(last_sort_col, col_name, sort_descending)
           /\ last_sort_col' = col_name
    /\ selected_row' = 0
    /\ last' = Did(1, 1)
    /\ UNCHANGED <<env, cols, rows, selected_col, overlay_content, overlay_offset,
                   body_height, body_width, running>>

_sort_column ==
    /\ running
    /\ UNCHANGED sys
    /\ LET col_name == _VISIBLE_COLS[selected_col + 1]
       IN  /\ sort_col' = col_name
           /\ sort_descending' = NextDescending(last_sort_col, col_name, sort_descending)
           /\ last_sort_col' = col_name
           /\ \E res \in _query(store, col_name, sort_descending') :
                  /\ cols' = res[1]
                  /\ rows' = res[2]
    /\ selected_row' = 0
    /\ last' = Did(1, 1)
    /\ UNCHANGED <<env, selected_col, overlay_content, overlay_offset, body_height,
                   body_width, running>>

\* event.app.exit()
_quit ==
    /\ running
    /\ UNCHANGED sys
    /\ running' = FALSE
    /\ last' = Did(0, 0)
    /\ UNCHANGED <<env, view>>

-----------------------------------------------------------------------------
(* One iteration of the loop of _periodic_refresh *)
\* a tick that hands the loop back between its query and its comparison
RefreshNotAtomic ==
    /\ running
    /\ refresh_task
    /\ IF in_flight = NoQuery
       THEN /\ \E res \in _query(store, sort_col, sort_descending) :
                   in_flight' = res
            /\ UNCHANGED <<cols, rows>>
            /\ last' = Did(0, 1)
       ELSE /\ in_flight' = NoQuery
            /\ IF in_flight[2] # rows \/ in_flight[1] # cols
               THEN /\ cols' = in_flight[1]
                    /\ rows' = in_flight[2]
                    /\ last' = Did(1, 0)
               ELSE /\ UNCHANGED <<cols, rows>>
                    /\ last' = Did(0, 0)
    /\ UNCHANGED <<env, sort_col, last_sort_col, sort_descending, selected_row,
                   selected_col, overlay_content, overlay_offset, body_height,
                   body_width, running, db_file, phase, refresh_task,
                   scratch, bot>>

\* a tick that replaces the cache and redraws whatever the query returns
RefreshAlwaysRedraws ==
    /\ running
    /\ refresh_task
    /\ UNCHANGED sys
    /\ \E res \in _query(store, sort_col, sort_descending) :
          /\ cols' = res[1]
          /\ rows' = res[2]
          /\ last' = Did(1, 1)
    /\ UNCHANGED <<env, sort_col, last_sort_col, sort_descending, selected_row,
                   selected_col, overlay_content, overlay_offset, body_height,
                   body_width, running>>

\* a tick that puts the selection back on row 0 when it replaces the cache
RefreshResetsSelection ==
    /\ running
    /\ refresh_task
    /\ UNCHANGED sys
    /\ \E res \in _query(store, sort_col, sort_descending) :
          IF res[2] # rows \/ res[1] # cols
          THEN /\ cols' = res[1]
               /\ rows' = res[2]
               /\ selected_row' = 0
               /\ last' = Did(1, 1)
          ELSE /\ UNCHANGED <<cols, rows, selected_row>>
               /\ last' = Did(0, 1)
    /\ UNCHANGED <<env, sort_col, last_sort_col, sort_descending,
                   selected_col, overlay_content, overlay_offset, body_height,
                   body_width, running>>

\* a tick that queries in the default order, whatever the sort state
RefreshDefaultOrder ==
    /\ running
    /\ refresh_task
    /\ UNCHANGED sys
    /\ \E res \in _query(store, None, TRUE) :
          IF res[2] # rows \/ res[1] # cols
          THEN /\ cols' = res[1]
               /\ rows' = res[2]
               /\ last' = Did(1, 1)
          ELSE /\ UNCHANGED <<cols, rows>>
               /\ last' = Did(0, 1)
    /\ UNCHANGED <<env, sort_col, last_sort_col, sort_descending, selected_row,
                   selected_col, overlay_content, overlay_offset, body_height,
                   body_width, running>>

_periodic_refresh ==
    /\ running
    /\ refresh_task
    /\ UNCHANGED sys
    /\ UNCHANGED <<env, sort_col, last_sort_col, sort_descending, selected_row,
                   selected_col, overlay_content, overlay_offset, body_height,
                   body_width, running>>
    /\ \E res \in _query(store, sort_col, sort_descending) :
          IF res[2] # rows \/ res[1] # cols
          THEN /\ cols' = res[1]
               /\ rows' = res[2]
               /\ last' = Did(1, 1)
          ELSE /\ UNCHANGED <<cols, rows>>
               /\ last' = Did(0, 1)

-----------------------------------------------------------------------------
(* Rendering *)

\* TableUI._render_header: one (style, text) fragment for every visible column
_render_header(selected) ==
    [i \in 1..Len(_VISIBLE_COLS) |->
        <<IF i - 1 = selected THEN "" ELSE "reverse bold",
          " " \o _VISIBLE_COLS[i] \o " ">>]

\* What _render_header returns, drawn now
RenderedHeader == _render_header(selected_col)

\* the window one line too long
OverlayBodyOneMore(content, offset, height, width) ==
    LET wrapped == Wrapped(content, width)
        shown == Slice(wrapped, offset, Min(offset + height + 1, Len(wrapped)))
    IN  [i \in 1..Len(shown) |-> <<"", Append(shown[i], "\n")>>]

\* TableUI._render_body, overlay mode: the fragments drawn
OverlayBody(content, offset, height, width) ==
    LET wrapped == Wrapped(content, width)
        start == offset
        end == Min(start + height, Len(wrapped))
        shown == Slice(wrapped, start, end)
    IN  [i \in 1..Len(shown) |-> <<"", Append(shown[i], "\n")>>]

\* What _render_body returns in overlay mode, drawn now: it reads the terminal first
RenderedOverlay ==
    LET dims == _refresh_dimensions(term)
    IN  OverlayBody(overlay_content, overlay_offset, dims[1], dims[2])

\* A render pass: _render_body caches the terminal's dimensions first
Render ==
    /\ running
    /\ UNCHANGED sys
    /\ body_height' = _refresh_dimensions(term)[1]
    /\ body_width' = _refresh_dimensions(term)[2]
    /\ last' = Did(0, 0)
    /\ UNCHANGED <<env, cols, rows, sort_col, last_sort_col, sort_descending,
                   selected_row, selected_col, overlay_content, overlay_offset,
                   running>>

-----------------------------------------------------------------------------
(* The environment *)

\* The bot stores a message: _insert_message of LlamaGPT.py
BotInsert ==
    /\ running
    /\ UNCHANGED sys
    /\ next_id <= MaxInserts
    /\ store' = store \cup {Record(next_id)}
    /\ next_id' = next_id + 1
    /\ last' = Did(0, 0)
    /\ UNCHANGED <<term, view, running>>

\* Another process (a second browser) deletes a record
ExternalDelete ==
    /\ running
    /\ UNCHANGED sys
    /\ \E r \in store : store' = store \ {r}
    /\ last' = Did(0, 0)
    /\ UNCHANGED <<next_id, term, view, running>>

\* The terminal window is resized
Resize ==
    /\ running
    /\ UNCHANGED sys
    /\ term # NoTerminal
    /\ \E size \in TermSizes \ {term} : term' = size
    /\ last' = Did(0, 0)
    /\ UNCHANGED <<store, next_id, view, running>>

Next ==
    \/ _move_left
    \/ _move_right
    \/ _move_up
    \/ _move_down
    \/ _toggle_overlay
    \/ _delete_row
    \/ _sort_column
    \/ _quit
    \/ _periodic_refresh
    \/ Render
    \/ BotInsert
    \/ ExternalDelete
    \/ Resize

Spec == Init /\ [][Next]_vars

\* The program while the bot stores nothing
NextQuiet ==
    \/ _move_left
    \/ _move_right
    \/ _move_up
    \/ _move_down
    \/ _toggle_overlay
    \/ _delete_row
    \/ _sort_column
    \/ _quit
    \/ _periodic_refresh
    \/ Render
    \/ ExternalDelete
    \/ Resize

SpecDuplicates == InitDuplicates /\ [][NextQuiet]_vars

-----------------------------------------------------------------------------
(* A store larger than the LIMIT of _query *)

\* The id-th record of a store that holds one message for every clock instant
Archived(id) == <<id, 1001, "alice", 2001, 1, "assistant", <<"a">>, id>>

\* The browser starts on a store of about QueryLimit records
InitCap ==
    /\ \E n \in (QueryLimit - 1)..(QueryLimit + MaxInserts - 1) :
          /\ store = {Archived(i) : i \in 1..n}
          /\ next_id = n + 1
    /\ Constructed

\* A press of t with the timestamp column selected
SortByTimestamp ==
    /\ _VISIBLE_COLS[selected_col + 1] = "timestamp"
    /\ _sort_column

\* The program on a store nobody writes, the user moving between the columns
\* and sorting by timestamp only: the other visible columns hold one value
\* in this store, and SQL allows every order of rows with equal keys
NextCap ==
    \/ _move_left
    \/ _move_right
    \/ SortByTimestamp
    \/ _periodic_refresh
    \/ _quit

SpecCap == InitCap /\ [][NextCap]_vars

-----------------------------------------------------------------------------
(* Startup, and queries that fail *)

\* What DB_PATH can be when the process starts: a database with the table
\* messages, nothing, or a file sqlite3 cannot query
DbFiles == {"ok", "missing", "broken"}

\* no TableUI object exists
NoTableUI ==
    /\ cols = <<>>
    /\ rows = <<>>
    /\ sort_col = None
    /\ last_sort_col = None
    /\ sort_descending = TRUE
    /\ selected_row = 0
    /\ selected_col = 0
    /\ overlay_content = NoText
    /\ overlay_offset = 0
    /\ body_height = 0
    /\ body_width = 0
    /\ running = FALSE
    /\ last = Did(0, 0)
    /\ phase = "start"
    /\ refresh_task = FALSE
    /\ in_flight = NoQuery

\* The process before the module is loaded: no TableUI object yet
InitStart ==
    /\ db_file \in DbFiles
    /\ \E k \in 0..MaxInserts :
          /\ store = IF db_file = "ok" THEN {Record(i) : i \in 1..k} ELSE {}
          /\ next_id = IF db_file = "ok" THEN k + 1 ELSE 1
    /\ term \in TermSizes \cup {NoTerminal}
    /\ NoTableUI
    /\ NoCall
    /\ BotOff

\* the startup that goes on with an empty table when the store cannot be read
StartupWithoutStore ==
    /\ phase = "start"
    /\ phase' = "up"
    /\ sort_col' = None
    /\ last_sort_col' = None
    /\ sort_descending' = TRUE
    /\ IF db_file = "ok"
       THEN \E res \in _query(store, None, TRUE) :
               /\ cols' = res[1]
               /\ rows' = res[2]
       ELSE /\ cols' = Schema
            /\ rows' = <<>>
    /\ selected_row' = 0
    /\ selected_col' = 0
    /\ overlay_content' = NoText
    /\ overlay_offset' = 0
    /\ body_height' = _refresh_dimensions(term)[1]
    /\ body_width' = _refresh_dimensions(term)[2]
    /\ running' = TRUE
    /\ refresh_task' = TRUE
    /\ last' = Did(0, 1)
    /\ UNCHANGED <<env, db_file, aside>>

\* The process starts: the module is loaded (the check of DB_PATH), TableUI()
\* is constructed (the first _query), run() creates the refresh task and
\* runs the application.  An exception on the way ends the process.
Startup ==
    /\ phase = "start"
    /\ IF db_file = "ok"
       THEN /\ phase' = "up"
            /\ sort_col' = None
            /\ last_sort_col' = None
            /\ sort_descending' = TRUE
            /\ \E res \in _query(store, None, TRUE) :
                   /\ cols' = res[1]
                   /\ rows' = res[2]
            /\ selected_row' = 0
            /\ selected_col' = 0
            /\ overlay_content' = NoText
            /\ overlay_offset' = 0
            /\ body_height' = _refresh_dimensions(term)[1]
            /\ body_width' = _refresh_dimensions(term)[2]
            /\ running' = TRUE
            /\ refresh_task' = TRUE
            /\ last' = Did(0, 1)
       ELSE \* FileNotFoundError at line 40, or sqlite3.Error out of _query
            /\ phase' = "failed"
            /\ last' = Raised
            /\ UNCHANGED <<view, running, refresh_task>>
    /\ UNCHANGED <<env, db_file, aside>>

\* The _query of a refresh tick raises (the database is locked by a writer):
\* the exception leaves the while loop and the coroutine, the task is done
RefreshQueryFails ==
    /\ running
    /\ refresh_task
    /\ refresh_task' = FALSE
    /\ last' = Raised
    /\ UNCHANGED <<env, view, running, db_file, phase, aside>>

\* The _query of _sort_column raises: the sort state is assigned already
SortQueryFails ==
    /\ running
    /\ LET col_name == _VISIBLE_COLS[selected_col + 1]
       IN  /\ sort_col' = col_name
           /\ sort_descending' = NextDescending(last_sort_col, col_name, sort_descending)
           /\ last_sort_col' = col_name
    /\ last' = Raised
    /\ UNCHANGED <<env, sys, cols, rows, selected_row, selected_col,
                   overlay_content, overlay_offset, body_height, body_width,
                   running>>

\* The SELECT or the DELETE of _delete_row raises: nothing is removed
DeleteFails ==
    /\ running
    /\ overlay_content = NoText
    /\ InRange(rows, selected_row)
    /\ last' = Raised
    /\ UNCHANGED <<env, sys, view, running>>

\* The program from the start of the process, every query after the first
\* one succeeding
NextStart ==
    \/ Startup
    \/ Next

SpecStart == InitStart /\ [][NextStart]_vars

\* The program from the start of the process, with queries that may fail
NextFaults ==
    \/ Startup
    \/ Next
    \/ RefreshQueryFails
    \/ SortQueryFails
    \/ DeleteFails

SpecFaults == InitStart /\ [][NextFaults]_vars

-----------------------------------------------------------------------------
(* The cells of the table: TableUI._render_body called on its own *)

\* the width of the format spec of a cell
CellWidth == 30

\* the longest value drawn
MaxCellLen == 50

\* the columns declared INTEGER by the CREATE TABLE of the bot
IntegerColumns == {"id", "user_id", "channel_id", "is_dm"}

\* str(n) of an int n >= 0
RECURSIVE Dec(_)
Dec(n) ==
    LET digit == SubSeq("0123456789", (n % 10) + 1, (n % 10) + 1)
    IN  IF n < 10 THEN digit ELSE Dec(n \div 10) \o digit

\* str(val) of the value of a column: a TEXT value is a string already
Str(column, val) == IF column \in IntegerColumns THEN Dec(val) ELSE val

RECURSIVE Spaces(_)
Spaces(n) == IF n <= 0 THEN "" ELSE " " \o Spaces(n - 1)

\* a cell that keeps a long value whole
CellUntruncated(text) == " " \o text \o Spaces(CellWidth - Len(text)) \o " "

\* f" {text[:30]:30} "
Cell(text) ==
    LET cut == SubSeq(text, 1, Min(CellWidth, Len(text)))
    IN  " " \o cut \o Spaces(CellWidth - Len(cut)) \o " "

\* TableUI._render_body, table mode: the fragments drawn for the rows rws,
\* each row an 8-tuple of values
TableBody(columns, rws, sel_row, sel_col) ==
    LET visible_idx == [c \in 1..Len(_VISIBLE_COLS) |-> IndexOf(columns, _VISIBLE_COLS[c])]
        cell(r, c) ==
            <<IF r - 1 = sel_row /\ c - 1 = sel_col THEN "reverse" ELSE "",
              Cell(Str(_VISIBLE_COLS[c], rws[r][visible_idx[c] + 1]))>>
        line(r) == [c \in 1..Len(_VISIBLE_COLS) |-> cell(r, c)] \o << <<"", "\n">> >>
        RECURSIVE upto(_)
        upto(r) == IF r = 0 THEN <<>> ELSE upto(r - 1) \o line(r)
    IN  upto(Len(rws))

\* a user name of n characters, no two neighbours alike
RECURSIVE NameOfLen(_)
NameOfLen(n) ==
    IF n = 0 THEN ""
    ELSE NameOfLen(n - 1) \o SubSeq("abcdefghijklmnopqrstuvwxyz", ((n - 1) % 26) + 1, ((n - 1) % 26) + 1)

\* The rows drawn: a message of a user whose name has n characters and the
\* answer to it, as sqlite3 returns them
DrawnRows(n, id) ==
    << <<id, 1001, NameOfLen(n), 2001, 1, "user", "hi", "2024-01-01T00:00:00.000000">>,
       <<id + 1, 1001, "alice", 2001, 1, "assistant", "hello", "2024-01-01T00:00:01.000000">> >>

\* no TableUI object, no store: a function is called on its own
Detached ==
    /\ store = {}
    /\ next_id = 1
    /\ term = NoTerminal
    /\ db_file = "ok"
    /\ NoTableUI
    /\ BotOff

InitCell ==
    /\ Detached
    /\ \E n \in 0..MaxCellLen, id \in {1, 99}, r \in 0..1, c \in 0..3 :
          input = [rows |-> DrawnRows(n, id), selected_row |-> r, selected_col |-> c]
    /\ output = NotReturned

\* the call of _render_body with no overlay open
RenderTable ==
    /\ ~output.returned
    /\ output' = Returned(TableBody(Schema, input.rows, input.selected_row,
                                     input.selected_col))
    /\ UNCHANGED <<store, next_id, browser, input, bot>>

SpecCell == InitCell /\ [][RenderTable]_vars

-----------------------------------------------------------------------------
(* chunk_text: an answer cut into messages (src/LlamaGPT.py) *)

\* the longest text and the largest limit chunk_text is called with on its own
MaxTextLen == 6
MaxLimit == 3

\* the characters str.strip, str.rstrip and str.lstrip remove
Whitespace == {" ", "\t", "\n", "\r", "\f"}

\* text.rstrip()
RECURSIVE rstrip(_)
rstrip(text) ==
    IF text = "" THEN ""
    ELSE IF SubSeq(text, Len(text), Len(text)) \in Whitespace
         THEN rstrip(SubSeq(text, 1, Len(text) - 1))
         ELSE text

\* text.lstrip()
RECURSIVE lstrip(_)
lstrip(text) ==
    IF text = "" THEN ""
    ELSE IF SubSeq(text, 1, 1) \in Whitespace
         THEN lstrip(SubSeq(text, 2, Len(text)))
         ELSE text

\* text.rfind(" ", start, end): the highest index of a space in
\* text[start:end], -1 if there is none
rfind(text, start, end) ==
    LET at == {i \in start..(Min(end, Len(text)) - 1) : SubSeq(text, i + 1, i + 1) = " "}
    IN  IF at = {} THEN -1 ELSE CHOOSE i \in at : \A j \in at : j <= i

\* chunk_text with the hard cut one character late
RECURSIVE ChunkHardCutLate(_, _)
ChunkHardCutLate(text, limit) ==
    IF text = "" THEN <<>>
    ELSE IF Len(text) <= limit THEN <<text>>
    ELSE LET found == rfind(text, 0, limit)
             cut == IF found = -1 THEN limit + 1 ELSE found
         IN  <<rstrip(SubSeq(text, 1, cut))>>
                 \o ChunkHardCutLate(lstrip(SubSeq(text, cut + 1, Len(text))), limit)

\* chunk_text going on after the character at the cut
RECURSIVE ChunkSkipsCut(_, _)
ChunkSkipsCut(text, limit) ==
    IF text = "" THEN <<>>
    ELSE IF Len(text) <= limit THEN <<text>>
    ELSE LET found == rfind(text, 0, limit)
             cut == IF found = -1 THEN limit ELSE found
         IN  <<rstrip(SubSeq(text, 1, cut))>>
                 \o ChunkSkipsCut(lstrip(SubSeq(text, cut + 2, Len(text))), limit)

\* chunk_text(text, limit), for limit >= 1: one iteration of the while loop
\* and the chunks of the text left
RECURSIVE chunk_text(_, _)
chunk_text(text, limit) ==
    IF text = "" THEN <<>>
    ELSE IF Len(text) <= limit THEN <<text>>
    ELSE LET found == rfind(text, 0, limit)
             cut == IF found = -1 THEN limit ELSE found
         IN  <<rstrip(SubSeq(text, 1, cut))>>
                 \o chunk_text(lstrip(SubSeq(text, cut + 1, Len(text))), limit)

\* the characters of the texts chunk_text is called with on its own
Alphabet == {"a", "b", " ", "\n"}

\* every text of at most n characters
RECURSIVE TextsUpTo(_)
TextsUpTo(n) ==
    IF n = 0 THEN {""}
    ELSE LET shorter == TextsUpTo(n - 1)
         IN  shorter \cup {t \o c : t \in shorter, c \in Alphabet}

InitChunk ==
    /\ Detached
    /\ \E text \in TextsUpTo(MaxTextLen), limit \in 1..MaxLimit :
          input = [text |-> text, limit |-> limit]
    /\ output = NotReturned

\* the call chunk_text(text, limit)
CallChunkText ==
    /\ ~output.returned
    /\ output' = Returned(chunk_text(input.text, input.limit))
    /\ UNCHANGED <<store, next_id, browser, input, bot>>

SpecChunk == InitChunk /\ [][CallChunkText]_vars

-----------------------------------------------------------------------------
(* The bot: on_message (src/LlamaGPT.py).

   A message is the discord.Message on_message reads: its author (id, name,
   bot), its channel id, its guild (None in a DM), the ids it mentions and
   its content.  A history entry is the dict {"role", "content"} as a
   record.  The coroutine is cut at its awaits: one action runs from one
   await to the next.  A message arrives when the coroutine of the message
   before it has returned.  The log records, in order, the calls of
   on_message (with the two histories as they were), the rows inserted, the
   calls of ollama_chat and their outcomes, and the messages handed to
   message.reply and message.channel.send. *)

\* how many messages arrive
MaxMessages == 2

\* deque(maxlen=20)
HistoryLimit == 20

\* the default limit of chunk_text
DiscordLimit == 2000

\* deque.extend(items) on a deque of maxlen 20
Extend(deque, items) ==
    LET all == deque \o items
    IN  SubSeq(all, Max(1, Len(all) - HistoryLimit + 1), Len(all))

\* text * n
RECURSIVE Repeat(_, _)
Repeat(text, n) ==
    IF n = 0 THEN ""
    ELSE LET half == Repeat(text, n \div 2)
         IN  half \o half \o (IF n % 2 = 1 THEN text ELSE "")

\* content.replace(old, "")
RECURSIVE Removed(_, _)
Removed(content, old) ==
    IF \A i \in 1..(Len(content) - Len(old) + 1) : SubSeq(content, i, i + Len(old) - 1) # old
    THEN content
    ELSE IF SubSeq(content, 1, Len(old)) = old
         THEN Removed(SubSeq(content, Len(old) + 1, Len(content)), old)
         ELSE SubSeq(content, 1, 1) \o Removed(SubSeq(content, 2, Len(content)), old)

\* f"<@{client.user.id}>" for the bot user 99
Mention == "<@99>"

\* m["content"] = m["content"].replace(f"<@{client.user.id}>", "").strip()
Cleaned(m) == [m EXCEPT !.content = lstrip(rstrip(Removed(m.content, Mention)))]

\* _insert_message: the row INSERT stores under the next id; the clock
\* moves on every second insert
InsertedRow(id, user_id, channel_id, is_dm, role, content, user_name) ==
    <<id, user_id, user_name, channel_id, IF is_dm THEN 1 ELSE 0, role, content,
      (id \div 2) + 1>>

\* The authors and the messages that arrive: a DM, a guild message that
\* mentions the bot, a guild message that mentions nobody, a message of the
\* bot itself
Alice == [id |-> 1001, name |-> "alice", bot |-> FALSE]
Self == [id |-> 99, name |-> "LlamaGPT", bot |-> TRUE]
Messages ==
    { [author |-> Alice, channel |-> 2001, guild |-> None, mentions |-> <<>>,
       content |-> "hi"],
      [author |-> Alice, channel |-> 2002, guild |-> "home", mentions |-> <<99>>,
       content |-> "<@99> hi"],
      [author |-> Alice, channel |-> 2002, guild |-> "home", mentions |-> <<>>,
       content |-> "hello"],
      [author |-> Self, channel |-> 2002, guild |-> "home", mentions |-> <<>>,
       content |-> "ok"] }

\* What ollama_chat returns: the answer (empty, short, with a leading space,
\* longer than one Discord message) and the thinking text, or what it raises
LongAnswer == Repeat("A", 1500) \o " " \o Repeat("B", 1500)
Answers == {"", "ok", " ok", LongAnswer}
Thinkings == {None, "", "plan"}
Errors == {"Ollama error 500: down"}

\* f"(!) Error: {exc}", (!) standing for the warning sign
ErrorText(exc) == "(!) Error: " \o exc

\* The entries of the log
Received(n, message, dms, channels) ==
    [event |-> "on_message", n |-> n, message |-> message, dm_histories |-> dms,
     channel_histories |-> channels]
Inserted(n, row) == [event |-> "insert", n |-> n, row |-> row]
Called(n, messages) == [event |-> "ollama_chat", n |-> n, messages |-> messages]
Answered(n, answer, thinking) ==
    [event |-> "returned", n |-> n, answer |-> answer, thinking |-> thinking]
Failed(n, exc) == [event |-> "raised", n |-> n, exc |-> exc]
Delivered(n, via, text) == [event |-> via, n |-> n, text |-> text]

\* The bot after its start: the table created and empty, no history
InitBot ==
    /\ store = {}
    /\ next_id = 1
    /\ term = NoTerminal
    /\ db_file = "ok"
    /\ NoTableUI
    /\ NoCall
    /\ dm_histories = [a \in {m.author.id : m \in Messages} |-> <<>>]
    /\ channel_histories = [c \in {m.channel : m \in Messages} |-> <<>>]
    /\ task = NoTask
    /\ log = <<>>
    /\ arrived = 0

\* on_message that answers every guild message, mention or not
OnMessageAnswersAll ==
    /\ task = NoTask
    /\ arrived < MaxMessages
    /\ UNCHANGED <<browser, scratch>>
    /\ arrived' = arrived + 1
    /\ \E message \in Messages :
          LET n == arrived + 1
              received == Received(n, message, dm_histories, channel_histories)
              row == InsertedRow(next_id, message.author.id, message.channel,
                                 message.guild = None, "user", message.content,
                                 message.author.name)
              user == [role |-> "user", content |-> message.content]
              stored == [i \in 1..Len(channel_histories[message.channel]) |->
                            Cleaned(channel_histories[message.channel][i])]
              history == IF message.guild = None
                         THEN dm_histories[message.author.id] \o <<user>>
                         ELSE stored \o <<Cleaned(user)>>
          IN  /\ store' = store \cup {row}
              /\ next_id' = next_id + 1
              /\ channel_histories' =
                     IF message.guild = None THEN channel_histories
                     ELSE [channel_histories EXCEPT ![message.channel] = stored]
              /\ task' = [pc |-> "ollama_chat", n |-> n, message |-> message,
                          history |-> history]
              /\ log' = log \o <<received, Inserted(n, row), Called(n, history)>>
              /\ UNCHANGED dm_histories

\* on_message up to its first await: the bot's own messages are skipped, the
\* message is stored, and for a DM or a guild message with mentions the
\* history is built and ollama_chat called.  In the guild branch the loop
\* that cleans the entries of the local list writes into the dicts the
\* stored deque holds too.
on_message ==
    /\ task = NoTask
    /\ arrived < MaxMessages
    /\ UNCHANGED <<browser, scratch>>
    /\ arrived' = arrived + 1
    /\ \E message \in Messages :
          LET n == arrived + 1
              received == Received(n, message, dm_histories, channel_histories)
              row == InsertedRow(next_id, message.author.id, message.channel,
                                 message.guild = None, "user", message.content,
                                 message.author.name)
              user == [role |-> "user", content |-> message.content]
              stored == [i \in 1..Len(channel_histories[message.channel]) |->
                            Cleaned(channel_histories[message.channel][i])]
          IN  IF message.author.bot
              THEN /\ log' = Append(log, received)
                   /\ UNCHANGED <<store, next_id, dm_histories, channel_histories, task>>
              ELSE /\ store' = store \cup {row}
                   /\ next_id' = next_id + 1
                   /\ IF message.guild = None
                      THEN LET history == dm_histories[message.author.id] \o <<user>>
                           IN  /\ task' = [pc |-> "ollama_chat", n |-> n,
                                           message |-> message, history |-> history]
                               /\ log' = log \o <<received, Inserted(n, row),
                                                  Called(n, history)>>
                               /\ UNCHANGED <<dm_histories, channel_histories>>
                      ELSE IF message.mentions # <<>>
                      THEN LET history == stored \o <<Cleaned(user)>>
                           IN  /\ channel_histories' =
                                      [channel_histories EXCEPT ![message.channel] = stored]
                               /\ task' = [pc |-> "ollama_chat", n |-> n,
                                           message |-> message, history |-> history]
                               /\ log' = log \o <<received, Inserted(n, row),
                                                  Called(n, history)>>
                               /\ UNCHANGED dm_histories
                      ELSE /\ task' = NoTask
                           /\ log' = log \o <<received, Inserted(n, row)>>
                           /\ UNCHANGED <<dm_histories, channel_histories>>

\* history + [{"role": "assistant", "content": answer}] appended to the
\* deque of the conversation: the last statement of both branches
Remembered(message, history, answer) ==
    LET items == Append(history, [role |-> "assistant", content |-> answer])
    IN  IF message.guild = None
        THEN /\ dm_histories' = [dm_histories EXCEPT
                                    ![message.author.id] = Extend(@, items)]
             /\ UNCHANGED channel_histories
        ELSE /\ channel_histories' = [channel_histories EXCEPT
                                         ![message.channel] = Extend(@, items)]
             /\ UNCHANGED dm_histories

\* ollama_chat returns: the thinking row if there is thinking text, the
\* assistant row, and the first chunk handed to message.reply
OllamaAnswers ==
    /\ task.pc = "ollama_chat"
    /\ UNCHANGED <<browser, scratch, arrived>>
    /\ \E answer \in Answers, thinking \in Thinkings :
          LET message == task.message
              n == task.n
              thinks == thinking \notin {None, ""}
              thought == InsertedRow(next_id, message.author.id, message.channel,
                                     message.guild = None, "thinking", thinking,
                                     message.author.name)
              said_id == IF thinks THEN next_id + 1 ELSE next_id
              said == InsertedRow(said_id, message.author.id, message.channel,
                                  message.guild = None, "assistant", answer,
                                  message.author.name)
              chunks == chunk_text(answer, DiscordLimit)
              inserts == (IF thinks THEN <<Inserted(n, thought)>> ELSE <<>>)
                             \o <<Inserted(n, said)>>
          IN  /\ store' = store \cup (IF thinks THEN {thought} ELSE {}) \cup {said}
              /\ next_id' = said_id + 1
              /\ IF chunks = <<>>
                 THEN /\ log' = log \o <<Answered(n, answer, thinking)>> \o inserts
                      /\ Remembered(message, task.history, answer)
                      /\ task' = NoTask
                 ELSE /\ log' = log \o <<Answered(n, answer, thinking)>> \o inserts
                                    \o <<Delivered(n, "reply", chunks[1])>>
                      /\ task' = [pc |-> "send", n |-> n, message |-> message,
                                  history |-> task.history, answer |-> answer,
                                  chunks |-> chunks, i |-> 0]
                      /\ UNCHANGED <<dm_histories, channel_histories>>

\* ollama_chat raises: the error text goes to the channel in a DM, as a
\* reply in a guild, and on_message returns
OllamaFails ==
    /\ task.pc = "ollama_chat"
    /\ UNCHANGED <<browser, scratch, arrived, store, next_id, dm_histories,
                   channel_histories>>
    /\ \E exc \in Errors :
          log' = log \o <<Failed(task.n, exc),
                          Delivered(task.n,
                                    IF task.message.guild = None THEN "send" ELSE "reply",
                                    ErrorText(exc))>>
    /\ task' = NoTask

\* a chunk was delivered: the next one is handed to message.channel.send;
\* after the last one the history is extended and on_message returns
ChunkSent ==
    /\ task.pc = "send"
    /\ UNCHANGED <<browser, scratch, arrived, store, next_id>>
    /\ IF task.i + 1 < Len(task.chunks)
       THEN /\ log' = Append(log, Delivered(task.n, "send", task.chunks[task.i + 2]))
            /\ task' = [task EXCEPT !.i = @ + 1]
            /\ UNCHANGED <<dm_histories, channel_histories>>
       ELSE /\ Remembered(task.message, task.history, task.answer)
            /\ task' = NoTask
            /\ UNCHANGED log

NextBot ==
    \/ on_message
    \/ OllamaAnswers
    \/ OllamaFails
    \/ ChunkSent

SpecBot == InitBot /\ [][NextBot]_vars

-----------------------------------------------------------------------------
(* Properties *)

TableMode == overlay_content = NoText
OverlayMode == overlay_content # NoText
RowCount == Len(rows)
Range(seq) == {seq[i] : i \in 1..Len(seq)}
Navigation == _move_left \/ _move_right \/ _move_up \/ _move_down

\* C1: in TABLE mode on a non-empty row list that the step leaves alone, a
\* left/right/up/down press taken with the selection in range leaves
\* selected_row in [0, rowCount-1] and selected_col in [0, 3]; the index moves
\* by one, and at a bound it stays where it is (no wraparound).
C1_NavigationClamps ==
    [][(/\ TableMode
        /\ RowCount >= 1
        /\ selected_row \in 0..(RowCount - 1)
        /\ selected_col \in 0..3
        /\ Navigation)
       => /\ rows' = rows
          /\ selected_row' \in 0..(RowCount - 1)
          /\ selected_col' \in 0..3
          /\ _move_left =>
                /\ selected_col' = IF selected_col = 0 THEN 0 ELSE selected_col - 1
                /\ selected_row' = selected_row
          /\ _move_right =>
                /\ selected_col' = IF selected_col = 3 THEN 3 ELSE selected_col + 1
                /\ selected_row' = selected_row
          /\ _move_up =>
                /\ selected_row' = IF selected_row = 0 THEN 0 ELSE selected_row - 1
                /\ selected_col' = selected_col
          /\ _move_down =>
                /\ selected_row' = IF selected_row = RowCount - 1 THEN RowCount - 1
                                   ELSE selected_row + 1
                /\ selected_col' = selected_col]_vars

\* C1 witness: the selection was moved to the last row and the last column
C1_AtLastRowAndColumn ==
    /\ TableMode
    /\ RowCount = 2
    /\ selected_row = RowCount - 1
    /\ selected_col = 3
    /\ last = Did(1, 0)

\* C2: in every reachable state selected_row is in [0, rowCount-1] of the
\* cached row list, and is 0 when the cached row list is empty.
C2_SelectedRowInRange ==
    IF RowCount = 0 THEN selected_row = 0 ELSE selected_row \in 0..(RowCount - 1)

\* C3: with an empty cached row list and selected_row = 0, an up or down press
\* in TABLE mode leaves selected_row = 0.
C3_EmptyTableInert ==
    [][(/\ TableMode
        /\ RowCount = 0
        /\ selected_row = 0
        /\ (_move_up \/ _move_down))
       => selected_row' = 0]_vars

\* C4: a sort press on the visible column c sets sort_descending to the
\* negation of its value if c is the column last sorted on and to TRUE
\* otherwise, and leaves sort_col = last_sort_col = c.
C4_SortDirectionRule ==
    [][_sort_column =>
          LET c == _VISIBLE_COLS[selected_col + 1]
          IN  /\ sort_descending' = IF c = last_sort_col THEN ~sort_descending ELSE TRUE
              /\ sort_col' = c
              /\ last_sort_col' = c]_vars

\* C4 witness: a second press on the same column turned the direction to ascending
C4_SecondPressAscending ==
    /\ sort_col = "role"
    /\ last_sort_col = "role"
    /\ sort_descending = FALSE
    /\ last = Did(1, 1)

\* rs is the rows of db ordered by column c in the given direction, capped
OrderedRowsOf(rs, db, c, descending) ==
    /\ Len(rs) = Min(Cardinality(db), QueryLimit)
    /\ Range(rs) \subseteq db
    /\ Cardinality(Range(rs)) = Len(rs)
    /\ \A i, j \in 1..Len(rs) :
          i < j => IF descending THEN SortKey(rs[i], c) >= SortKey(rs[j], c)
                   ELSE SortKey(rs[i], c) <= SortKey(rs[j], c)
    /\ \A r \in db \ Range(rs) : \A i \in 1..Len(rs) :
          IF descending THEN SortKey(rs[i], c) >= SortKey(r, c)
          ELSE SortKey(rs[i], c) <= SortKey(r, c)

\* C5: after a sort press in TABLE mode on column c = visible column
\* selected_col, the cached columns are the store's columns and the cached
\* rows are the store's rows ordered by c in the new direction (capped);
\* selected_row is 0 and selected_col is unchanged.
C5_SortRequeries ==
    [][(TableMode /\ _sort_column) =>
          LET c == _VISIBLE_COLS[selected_col + 1]
          IN  /\ cols' = Schema
              /\ OrderedRowsOf(rows', store, c, sort_descending')
              /\ selected_row' = 0
              /\ selected_col' = selected_col]_vars

\* C5 witness: two rows re-ordered by role ascending, the selection back on row 0
C5_SortedByRoleAscending ==
    /\ TableMode
    /\ sort_col = "role"
    /\ ~sort_descending
    /\ RowCount = 2
    /\ rows[1][6] = "assistant"
    /\ rows[2][6] = "user"
    /\ selected_row = 0
    /\ selected_col = 2
    /\ last = Did(1, 1)

\* C6: a sort press while the overlay is open leaves the sort state, the cache
\* and selected_row unchanged and issues no store query.
C6_SortIgnoredInOverlay ==
    [][(OverlayMode /\ _sort_column) =>
          /\ UNCHANGED <<sort_col, last_sort_col, sort_descending, cols, rows,
                         selected_row>>
          /\ last'.queries = 0]_vars

\* C7: while the overlay is open, left and right change nothing, up and down
\* change nothing but overlay_offset, and delete changes nothing; none of them
\* changes selected_row or selected_col.
C7_SelectionFrozenInOverlay ==
    [][OverlayMode =>
          /\ (_move_left \/ _move_right \/ _delete_row) => UNCHANGED <<view, env>>
          /\ (_move_up \/ _move_down) =>
                UNCHANGED <<env, cols, rows, sort_col, last_sort_col,
                            sort_descending, selected_row, selected_col,
                            overlay_content, body_height, body_width>>]_vars

\* C7 witness: the overlay was scrolled down while a row other than the first is selected
C7_ScrolledOverlayOnLaterRow ==
    /\ OverlayMode
    /\ overlay_offset > 0
    /\ selected_row > 0
    /\ selected_col > 0
    /\ last = Did(1, 0)

\* C8: in every reachable state in TABLE mode overlay_offset = 0.
C8_OffsetZeroInTableMode == TableMode => overlay_offset = 0

\* C9: in every reachable state in OVERLAY mode,
\* 0 <= overlay_offset <= max(0, wrappedLineCount - bodyHeight) for the overlay
\* text and the terminal's current dimensions.
C9_OffsetWithinText ==
    OverlayMode =>
        LET dims == _refresh_dimensions(term)
        IN  /\ 0 <= overlay_offset
            /\ overlay_offset <= MaxOffset(overlay_content, dims[1], dims[2])

Fragments(lines) == [i \in 1..Len(lines) |-> <<"", <<lines[i], "\n">>>>]

\* C10: in OVERLAY mode the rendered body is the wrapped lines with indices
\* [overlay_offset, min(overlay_offset + bodyHeight, wrappedLineCount)), one
\* fragment per line in order; with bodyHeight 4 and the six-line text, offset
\* 0 shows lines 1-4, offset 1 lines 2-5 and offset 2 lines 3-6.
C10_OverlayWindow ==
    OverlayMode =>
        LET dims == _refresh_dimensions(term)
            wrapped == Wrapped(overlay_content, dims[2])
            stop == Min(overlay_offset + dims[1], Len(wrapped))
            body == RenderedOverlay
        IN  /\ Len(body) = Max(0, stop - overlay_offset)
            /\ \A i \in 1..Len(body) :
                  body[i] = <<"", wrapped[overlay_offset + i] \o <<"\n">>>>
            /\ (overlay_content = SixLines /\ dims[1] = 4) =>
                  /\ overlay_offset = 0 => body = Fragments(<<"a", "b", "c", "d">>)
                  /\ overlay_offset = 1 => body = Fragments(<<"b", "c", "d", "e">>)
                  /\ overlay_offset = 2 => body = Fragments(<<"c", "d", "e", "f">>)

\* C10 witness: six wrapped lines, bodyHeight 4, scrolled to the last window
C10_LastWindowOfSix ==
    /\ OverlayMode
    /\ overlay_content = SixLines
    /\ _refresh_dimensions(term)[1] = 4
    /\ overlay_offset = 2
    /\ Len(RenderedOverlay) = 4

-----------------------------------------------------------------------------
(* The overlay toggle and the delete key *)

\* selected_row clamped into lo..hi
Clamp(x, lo, hi) == Max(lo, Min(x, hi))

\* C11: a press of space in TABLE mode on a non-empty row list opens the
\* overlay on the content of the cached row at selected_row with offset 0, a
\* press in OVERLAY mode clears the overlay text, and neither press changes
\* selected_row, selected_col, the sort state or the cached rows.
C11_ToggleAlternates ==
    [][_toggle_overlay =>
          /\ UNCHANGED <<selected_row, selected_col, sort_col, last_sort_col,
                         sort_descending, cols, rows>>
          /\ OverlayMode => overlay_content' = NoText
          /\ (TableMode /\ RowCount >= 1) =>
                /\ InRange(rows, selected_row)
                /\ overlay_content' = At(rows, selected_row)[7]
                /\ overlay_offset' = 0]_vars


\* rs without its row at position i (from 0)
Without(rs, i) == SubSeq(rs, 1, i) \o SubSeq(rs, i + 2, Len(rs))

\* C12: a press of x in TABLE mode on a non-empty row list removes the row at
\* selected_row from the cached rows, the others keeping their order, so the
\* row count decreases by one, and afterwards selected_row is the old
\* selected_row clamped into 0 .. rowCount - 1.
C12_DeleteRemovesSelected ==
    [][(_delete_row /\ TableMode /\ RowCount >= 1) =>
          /\ selected_row \in 0..(RowCount - 1)
          /\ rows' = Without(rows, selected_row)
          /\ Len(rows') = RowCount - 1
          /\ selected_row' = Clamp(selected_row, 0, Len(rows') - 1)]_vars


\* C13: a press of x in TABLE mode on a cached row that is still persisted
\* removes from the store exactly the record whose id is the id of the
\* selected cached row; every other record remains, the records that agree
\* with it on all the other fields included.
C13_DeleteByIdentity ==
    [][(/\ _delete_row
        /\ TableMode
        /\ InRange(rows, selected_row)
        /\ \E r \in store : r[1] = At(rows, selected_row)[1]) =>
          store' = {r \in store : r[1] # At(rows, selected_row)[1]}]_vars


\* C14: a press of x while the overlay is open changes neither the cached
\* rows, nor the store, nor the overlay text and offset, nor the selection.
C14_DeleteIgnoredInOverlay ==
    [][(_delete_row /\ OverlayMode) =>
          UNCHANGED <<cols, rows, store, overlay_content, overlay_offset,
                      selected_row, selected_col>>]_vars

\* the overlay is open on a row that is cached and persisted, and the last
\* event handled neither redrew nor queried nor raised
C14_OverlayOnPersistedRow ==
    /\ OverlayMode
    /\ InRange(rows, selected_row)
    /\ At(rows, selected_row) \in store
    /\ overlay_content = At(rows, selected_row)[7]
    /\ last = Did(0, 0)


\* C15: a press of x in TABLE mode on a cached row that no persisted record
\* matches is a silent no-op: nothing is raised, the store is unchanged, the
\* row stays in the cached rows and selected_row is unchanged.
C15_DeleteOfVanishedRowIsNoOp ==
    [][(/\ _delete_row
        /\ TableMode
        /\ InRange(rows, selected_row)
        /\ Matching(store, At(rows, selected_row)) = {}) =>
          /\ UNCHANGED <<store, rows, selected_row>>
          /\ ~last'.raised]_vars


-----------------------------------------------------------------------------
(* The refresh tick *)

\* the column a query of the current sort state orders by
SortColumnNow == IF sort_col = None THEN "timestamp" ELSE sort_col

\* C16: a refresh tick whose query result equals the cached columns and rows
\* leaves the cache unchanged and requests no redraw; a tick whose result
\* differs replaces the cache with the result and requests exactly one redraw.
C16_TickRedrawsOnChange ==
    [][_periodic_refresh =>
          \/ /\ UNCHANGED <<cols, rows>>
             /\ cols = Schema
             /\ OrderedRowsOf(rows, store, SortColumnNow, sort_descending)
             /\ last'.redraws = 0
          \/ /\ <<cols', rows'>> # <<cols, rows>>
             /\ cols' = Schema
             /\ OrderedRowsOf(rows', store, SortColumnNow, sort_descending)
             /\ last'.redraws = 1]_vars

\* C16 witness: no sort was pressed, and the event handled last queried and
\* redrew (a tick that replaced the cache), the cache now holding the store
C16_TickReplacedCache ==
    /\ sort_col = None
    /\ last = Did(1, 1)
    /\ RowCount >= 1
    /\ Range(rows) = store

\* C17: a refresh tick changes neither selected_row, nor selected_col, nor
\* the overlay text, nor overlay_offset, nor the sort state.
C17_TickKeepsViewState ==
    [][_periodic_refresh =>
          UNCHANGED <<selected_row, selected_col, overlay_content,
                      overlay_offset, sort_col, last_sort_col,
                      sort_descending>>]_vars

\* C17 witness: a tick replaced the cache under an open overlay whose text is
\* the content of no cached row any more
C17_OverlayOutlivesRow ==
    /\ OverlayMode
    /\ sort_col = None
    /\ last = Did(1, 1)
    /\ RowCount >= 1
    /\ \A i \in 1..RowCount : rows[i][7] # overlay_content

\* C18: a refresh tick queries with the sort state current at the tick: by
\* timestamp descending while no sort was pressed, by the column and the
\* direction of the last sort press afterwards, the sort state changing at a
\* sort press only.
C18_TickUsesCurrentSort ==
    [][/\ _periodic_refresh =>
             /\ OrderedRowsOf(rows', store, SortColumnNow, sort_descending)
             /\ sort_col = None => sort_descending
             /\ sort_col # None => sort_col = last_sort_col
       /\ UNCHANGED <<sort_col, last_sort_col, sort_descending>> \/ _sort_column]_vars

\* C18 witness: after the rows were sorted by role ascending a tick queried
\* and found the cache current
C18_TickAfterRoleAscending ==
    /\ sort_col = "role"
    /\ ~sort_descending
    /\ RowCount = 2
    /\ rows[1][6] = "assistant"
    /\ rows[2][6] = "user"
    /\ last = Did(0, 1)


-----------------------------------------------------------------------------
(* Failures of the store *)

\* C19: a refresh tick whose query fails is swallowed: it raises nothing,
\* changes neither the ViewState nor the cache, and the refresh loop keeps
\* running, so that a later tick can update the cache.
C19_FailedTickIsRetried ==
    [][RefreshQueryFails =>
          /\ UNCHANGED view
          /\ ~last'.raised
          /\ refresh_task']_vars

\* the process has not constructed a TableUI: nothing was queried, drawn or handled
NeverStarted ==
    /\ ~running
    /\ ~refresh_task
    /\ phase # "up"
    /\ cols = <<>> /\ rows = <<>>
    /\ sort_col = None /\ last_sort_col = None /\ sort_descending
    /\ selected_row = 0 /\ selected_col = 0
    /\ overlay_content = NoText /\ overlay_offset = 0
    /\ last.redraws = 0 /\ last.queries = 0

\* C20: when DB_PATH does not exist or the first query fails the application
\* never runs: no event loop, no refresh task, no key or tick handled.
C20_NoStartWithoutStore == db_file # "ok" => NeverStarted

\* C20 witness: the startup on a file sqlite3 cannot query has raised
C20_StartupRaised ==
    /\ db_file = "broken"
    /\ phase = "failed"
    /\ last = Raised


-----------------------------------------------------------------------------
(* The cap of the query *)

\* C21: every query returns at most 100 rows, the first 100 of the store in
\* the requested order, whatever the size of the store, so the cached rows
\* are never more than 100.
C21_AtMostHundredRows ==
    /\ RowCount <= 100
    /\ [][/\ RowCount' <= 100
          /\ (_periodic_refresh \/ _sort_column) =>
                OrderedRowsOf(rows',
                              store,
                              IF sort_col' = None THEN "timestamp" ELSE sort_col',
                              sort_descending')]_vars

\* C21 witness: the store holds more than 100 records and a sort press in
\* ascending order left exactly 100 rows in the cache, the newest cut off
C21_CapBites ==
    /\ Cardinality(store) > 100
    /\ RowCount = 100
    /\ sort_col = "timestamp"
    /\ ~sort_descending
    /\ rows[1][8] = 1
    /\ rows[100][8] = 100
    /\ last = Did(1, 1)


-----------------------------------------------------------------------------
(* The event loop *)

\* C22: key handlers and refresh ticks are atomic to each other.  No state
\* lies between the query of a tick and its replacement of the cache, so no
\* key handler runs there: the rows a tick leaves in the cache are a result
\* of the query on the store and the sort state the tick started in.  No tick
\* runs inside a key handler: the step of a delete that removes a record
\* from the store removes the cached row too.
C22_HandlersAndTicksAtomic ==
    /\ in_flight = NoQuery
    /\ [][/\ in_flight' = NoQuery
          /\ _periodic_refresh =>
                /\ OrderedRowsOf(rows', store, SortColumnNow, sort_descending)
                /\ UNCHANGED <<store, selected_row, selected_col,
                               overlay_content, overlay_offset>>
          /\ (store' # store /\ _delete_row) =>
                /\ Len(rows') = Len(rows) - 1
                /\ Range(rows') \subseteq Range(rows)]_vars

\* C22 witness: a delete took a record out of the store and its row out of
\* the cache, and the tick that followed found the cache current
C22_TickAfterDelete ==
    /\ TableMode
    /\ next_id = 3
    /\ Cardinality(store) = 1
    /\ RowCount = 1
    /\ Range(rows) = store
    /\ sort_col = None
    /\ last = Did(0, 1)
    /\ in_flight = NoQuery

\* C23: a query does not stall the event loop: the tick that issues a query
\* hands the loop back with the query in flight, so that a pending key event
\* can be handled before the result arrives.
C23_QueryYieldsToLoop ==
    [][_periodic_refresh => in_flight' # NoQuery]_vars


-----------------------------------------------------------------------------
(* The header and the cells of the table *)

\* C24: the header has one cell for every visible column, in the order
\* user_name, is_dm, role, timestamp; the cell at selected_col has the style
\* "reverse bold" and the other cells have not, except that the cell of
\* column 0 has the style "" also when it is selected.
C24_SelectedHeaderEmphasized ==
    /\ Len(RenderedHeader) = 4
    /\ [i \in 1..4 |-> RenderedHeader[i][2]] =
          <<" user_name ", " is_dm ", " role ", " timestamp ">>
    /\ selected_col = 0 => RenderedHeader[1][1] = ""
    /\ \A i \in 1..4 :
          (selected_col >= 1 /\ i - 1 = selected_col) =>
              RenderedHeader[i][1] = "reverse bold"
    /\ \A i \in 1..4 :
          (selected_col >= 1 /\ i - 1 # selected_col) =>
              RenderedHeader[i][1] # "reverse bold"

-----------------------------------------------------------------------------
(* The cells of the table *)

\* the value the c-th visible cell of row r of the rows drawn shows
ShownValue(r, c) ==
    Str(_VISIBLE_COLS[c], input.rows[r][IndexOf(Schema, _VISIBLE_COLS[c]) + 1])

\* C25: in table mode every rendered cell is 32 characters: one space, the
\* stringified value cut to its first 30 characters or followed by spaces up
\* to 30 characters, one space; every row is its four cells and a newline.
C25_CellsAreThirtyWide ==
    output.returned =>
        /\ Len(output.value) = 5 * Len(input.rows)
        /\ \A r \in 1..Len(input.rows) :
              /\ output.value[5 * r] = <<"", "\n">>
              /\ \A c \in 1..4 :
                    LET text == output.value[5 * (r - 1) + c][2]
                        val == ShownValue(r, c)
                    IN  /\ Len(text) = 32
                        /\ SubSeq(text, 1, 1) = " "
                        /\ SubSeq(text, 32, 32) = " "
                        /\ \A k \in 1..30 :
                              SubSeq(text, k + 1, k + 1) =
                                  IF k <= Len(val) THEN SubSeq(val, k, k) ELSE " "

\* a 50-character name is drawn as its first 30 characters, a 5-character
\* name padded with 25 spaces
C25_LongAndShortDrawn ==
    /\ output.returned
    /\ Len(input.rows[1][3]) = 50
    /\ output.value[1][2] = " abcdefghijklmnopqrstuvwxyzabcd "
    /\ input.rows[2][3] = "alice"
    /\ output.value[6][2] = " alice                          "

-----------------------------------------------------------------------------
(* chunk_text *)

\* C26 as stated: every chunk is at most limit characters long, and a text
\* of at most limit characters is returned as the one chunk [text].
C26_ShortTextIsOneChunk ==
    output.returned =>
        /\ \A i \in 1..Len(output.value) : Len(output.value[i]) <= input.limit
        /\ Len(input.text) <= input.limit => output.value = <<input.text>>

\* C26, amended: every chunk is at most limit characters long; a non-empty
\* text of at most limit characters is returned as the one chunk [text], and
\* the empty text as no chunk at all.
C26_ChunksWithinLimit ==
    output.returned =>
        /\ \A i \in 1..Len(output.value) : Len(output.value[i]) <= input.limit
        /\ (input.text # "" /\ Len(input.text) <= input.limit)
              => output.value = <<input.text>>
        /\ input.text = "" => output.value = <<>>

\* a text longer than the limit was cut at its space
C26_CutAtSpace ==
    /\ output.returned
    /\ input = [text |-> "ab ab", limit |-> 3]
    /\ output.value = <<"ab", "ab">>


\* the chunks joined with sep between them
RECURSIVE Joined(_, _)
Joined(chunks, sep) ==
    IF chunks = <<>> THEN ""
    ELSE IF Len(chunks) = 1 THEN chunks[1]
    ELSE chunks[1] \o sep \o Joined(Tail(chunks), sep)

\* text.split(" "): the runs between the spaces of a text, empty ones too
RECURSIVE SplitAtSpaces(_)
SplitAtSpaces(text) ==
    LET at == {i \in 1..Len(text) : SubSeq(text, i, i) = " "}
        first == CHOOSE i \in at : \A j \in at : i <= j
    IN  IF at = {} THEN <<text>>
        ELSE <<SubSeq(text, 1, first - 1)>> \o SplitAtSpaces(SubSeq(text, first + 1, Len(text)))

\* the characters of a text
CharsOf(text) == {SubSeq(text, i, i) : i \in 1..Len(text)}

\* how many of the words are w
Occurrences(words, w) == Cardinality({i \in 1..Len(words) : words[i] = w})

\* the words of all the chunks, in order
RECURSIVE WordsOfChunks(_)
WordsOfChunks(chunks) ==
    IF chunks = <<>> THEN <<>>
    ELSE SplitAtSpaces(chunks[1]) \o WordsOfChunks(Tail(chunks))

\* non-empty words with a single space between each two
SingleSpaced(text) ==
    /\ text # ""
    /\ \A i \in 1..Len(SplitAtSpaces(text)) : SplitAtSpaces(text)[i] # ""

\* the first chunk of a text longer than the limit ends where the text has
\* a space, if there is a space among the first limit characters
FirstCutAtSpace ==
    LET text == input.text
        first == output.value[1]
    IN  (Len(text) > input.limit /\ " " \in CharsOf(SubSeq(text, 1, input.limit)))
            => /\ first = SubSeq(text, 1, Len(first))
               /\ \E p \in (Len(first) + 1)..input.limit :
                     /\ SubSeq(text, p, p) = " "
                     /\ CharsOf(SubSeq(text, Len(first) + 1, p)) \subseteq Whitespace

\* the text without its whitespace
RECURSIVE Unspaced(_)
Unspaced(text) ==
    IF text = "" THEN ""
    ELSE (IF SubSeq(text, 1, 1) \in Whitespace THEN "" ELSE SubSeq(text, 1, 1))
             \o Unspaced(SubSeq(text, 2, Len(text)))

\* the words of the text shorter than the limit
ShortWords ==
    {w \in Range(SplitAtSpaces(input.text)) : w # "" /\ Len(w) < input.limit}

\* C27 as stated: the chunks of a text without spaces concatenate to the
\* text; the chunks of a text of words separated by single spaces, joined
\* with one space, give the text; a cut is at a space when the first limit
\* characters have one, and no word shorter than the limit is broken.
C27_NoTextLost ==
    output.returned =>
        /\ " " \notin CharsOf(input.text) => Joined(output.value, "") = input.text
        /\ SingleSpaced(input.text) => Joined(output.value, " ") = input.text
        /\ FirstCutAtSpace
        /\ \A w \in ShortWords :
              Occurrences(WordsOfChunks(output.value), w)
                  >= Occurrences(SplitAtSpaces(input.text), w)

\* C27, amended: the chunks of every text hold, in order, all the characters
\* of the text that are not whitespace, and only them and whitespace; the
\* chunks of a text without whitespace concatenate to the text; the chunks of a text of words separated by single spaces, no word
\* longer than the limit and no other whitespace in it, joined with one
\* space, give the text; a cut is at a space when the first limit characters
\* have one; in a text whose only whitespace is spaces no word shorter than
\* the limit is broken.
C27_NoTextLostInWords ==
    output.returned =>
        /\ Unspaced(Joined(output.value, "")) = Unspaced(input.text)
        /\ CharsOf(input.text) \cap Whitespace = {}
              => Joined(output.value, "") = input.text
        /\ ( /\ SingleSpaced(input.text)
             /\ CharsOf(input.text) \cap Whitespace \subseteq {" "}
             /\ \A i \in 1..Len(SplitAtSpaces(input.text)) :
                   Len(SplitAtSpaces(input.text)[i]) <= input.limit )
              => Joined(output.value, " ") = input.text
        /\ FirstCutAtSpace
        /\ CharsOf(input.text) \cap Whitespace \subseteq {" "}
              => \A w \in ShortWords :
                    Occurrences(WordsOfChunks(output.value), w)
                        >= Occurrences(SplitAtSpaces(input.text), w)

\* three words of one character were cut into two chunks at a space
C27_WordsKeptWhole ==
    /\ output.returned
    /\ input = [text |-> "a b a", limit |-> 3]
    /\ output.value = <<"a", "b a">>

-----------------------------------------------------------------------------
(* The bot *)

\* the entries of the log that belong to the n-th message
EventsOf(n) == SelectSeq(log, LAMBDA e : e.n = n)

\* an entry without the ids: the event, and the role and content of a row or
\* the text of a message handed to Discord
Summary(e) ==
    IF e.event = "insert" THEN <<"insert", e.row[6], e.row[7]>>
    ELSE IF e.event \in {"reply", "send"} THEN <<e.event, e.text>>
    ELSE <<e.event>>
Summaries(ev) == [i \in 1..Len(ev) |-> Summary(ev[i])]

\* the rows the log says were inserted for the n-th message
RowsOf(n) == {log[i].row : i \in {j \in 1..Len(log) : log[j].n = n /\ log[j].event = "insert"}}

\* on_message has returned for the n-th message
Finished(n) == task = NoTask \/ task.n # n

\* the call of ollama_chat for the n-th message returned, or raised
Succeeded(n) == \E i \in 1..Len(log) : log[i].n = n /\ log[i].event = "returned"
Erred(n) == \E i \in 1..Len(log) : log[i].n = n /\ log[i].event = "raised"

IsPrefix(s, t) == Len(s) <= Len(t) /\ s = SubSeq(t, 1, Len(s))

\* how many messages of the entries went through message.reply
Replies(ev) == Cardinality({i \in 1..Len(ev) : ev[i].event = "reply"})

\* the order of the events of a message whose call returned: the user row,
\* the call, its return, the thinking row if there is thinking text, the
\* assistant row, the chunks of the answer, the first through reply
AnsweredInOrder(n) ==
    LET ev == EventsOf(n)
        message == ev[1].message
        answer == ev[4].answer
        thinking == ev[4].thinking
        chunks == chunk_text(answer, DiscordLimit)
        expected ==
            << <<"on_message">>, <<"insert", "user", message.content>>,
               <<"ollama_chat">>, <<"returned">> >>
            \o (IF thinking \in {None, ""} THEN <<>>
                ELSE << <<"insert", "thinking", thinking>> >>)
            \o << <<"insert", "assistant", answer>> >>
            \o [i \in 1..Len(chunks) |-> <<IF i = 1 THEN "reply" ELSE "send", chunks[i]>>]
    IN  /\ Len(ev) >= 4
        /\ ev[1].event = "on_message"
        /\ ~message.author.bot
        /\ message.guild = None \/ message.mentions # <<>>
        /\ ev[4].event = "returned"
        /\ IsPrefix(Summaries(ev), expected)
        /\ Finished(n) => Summaries(ev) = expected
        /\ RowsOf(n) \subseteq store

\* C28: for a message whose model call succeeded the events are,
\* in this order, the user row, the call, the thinking row (if there is
\* thinking text), the assistant row, the chunks in order, the first through
\* message.reply and the later ones through channel.send; exactly one reply
\* is made per handled message.
C28_OneReplyPerMessage ==
    \A n \in 1..arrived :
        Succeeded(n) =>
            /\ AnsweredInOrder(n)
            /\ Finished(n) => Replies(EventsOf(n)) = 1

\* C29: when the model call fails, one error message is delivered (through
\* channel.send in a DM, through message.reply in a guild), no thinking or
\* assistant row is stored, no chunk is sent, the user row stays stored, and
\* the history of the conversation is as it was when the message arrived.
C29_FailedCallLeavesHistory ==
    \A n \in 1..arrived :
        Erred(n) =>
            LET ev == EventsOf(n)
                message == ev[1].message
            IN  /\ Len(ev) = 5
                /\ Summaries(SubSeq(ev, 1, 4)) =
                       << <<"on_message">>, <<"insert", "user", message.content>>,
                          <<"ollama_chat">>, <<"raised">> >>
                /\ Summary(ev[5]) = <<IF message.guild = None THEN "send" ELSE "reply",
                                      ErrorText(ev[4].exc)>>
                /\ RowsOf(n) \subseteq store
                /\ n = arrived =>
                      /\ dm_histories = ev[1].dm_histories
                      /\ channel_histories = ev[1].channel_histories

\* the message on_message was called with in this step
Arriving == log'[Len(log) + 1].message

\* the message the n-th call of on_message in the log lg was made with
MessageIn(lg, n) ==
    lg[CHOOSE i \in 1..Len(lg) : lg[i].n = n /\ lg[i].event = "on_message"].message

\* the messages the responder ignores
Unanswered(message) ==
    message.author.bot \/ (message.guild # None /\ message.mentions = <<>>)

\* C30: a guild message with no mentions only gets its user row stored: the
\* model is not called, nothing is replied or sent, no other row is stored
\* and the histories stay as they are; a message of a bot changes nothing.
C30_UnmentionedIgnored ==
    [][ /\ \A i \in 1..Len(log') :
              Unanswered(MessageIn(log', log'[i].n)) =>
                  \/ log'[i].event = "on_message"
                  \/ /\ log'[i].event = "insert"
                     /\ log'[i].row[6] = "user"
                     /\ ~MessageIn(log', log'[i].n).author.bot
        /\ (on_message /\ Arriving.author.bot) =>
              /\ UNCHANGED <<store, next_id, dm_histories, channel_histories, task>>
              /\ Len(log') = Len(log) + 1
        /\ (on_message /\ ~Arriving.author.bot /\ Arriving.guild # None
                /\ Arriving.mentions = <<>>) =>
              /\ \E row \in store' \ store :
                    /\ store' = store \cup {row}
                    /\ row[6] = "user"
                    /\ row[7] = Arriving.content
              /\ UNCHANGED <<dm_histories, channel_histories>>
              /\ task' = NoTask
              /\ Len(log') = Len(log) + 2
      ]_vars

\* a message of the bot itself and a guild message without mentions have
\* arrived: one row is stored and no history has an entry
C30_TwoMessagesIgnored ==
    /\ arrived = 2
    /\ task = NoTask
    /\ log[1].message.author.bot
    /\ log[2].message.mentions = <<>> /\ log[2].message.guild # None
    /\ Cardinality(store) = 1
    /\ \A c \in DOMAIN channel_histories : channel_histories[c] = <<>>
    /\ Len(log) = 3

-----------------------------------------------------------------------------
(* The empty table *)

\* C31: with an empty cached row list no key handler raises, and a press of
\* space or x in TABLE mode changes nothing: the view state, the cache and
\* the store stay as they are and the mode stays TABLE.
C31_EmptyTableKeysAreNoOps ==
    [][(RowCount = 0) =>
          /\ (\/ _move_left \/ _move_right \/ _move_up \/ _move_down
              \/ _toggle_overlay \/ _delete_row \/ _sort_column \/ _quit)
                => ~last'.raised
          /\ (TableMode /\ (_toggle_overlay \/ _delete_row))
                => /\ UNCHANGED <<view, store>>
                   /\ TableMode']_vars

-----------------------------------------------------------------------------
(* The order of the cache *)

-----------------------------------------------------------------------------
(* Empty chunks *)

\* C33: chunk_text returns for every text and every limit >= 1, and every
\* chunk it returns is non-empty, whether or not the text begins with a
\* space or has a run of spaces where it is cut.
C33_NoEmptyChunk ==
    output.returned => \A i \in 1..Len(output.value) : output.value[i] # ""

-----------------------------------------------------------------------------
(* The history of a conversation *)

\* the n-th message belongs to the DM of author a, or to the guild channel c
InDm(n, a) ==
    LET message == MessageIn(log, n)
    IN  message.guild = None /\ message.author.id = a
InChannel(n, c) ==
    LET message == MessageIn(log, n)
    IN  message.guild # None /\ message.channel = c

\* user_1, assistant_1, ..., user_k, assistant_k of the first n messages:
\* the exchanges that are over, of the conversation picked by In; the user
\* text of a guild message is stored without the bot's mention
RECURSIVE Exchanges(_, _, _)
Exchanges(n, In(_, _), key) ==
    IF n = 0 THEN <<>>
    ELSE Exchanges(n - 1, In, key) \o
         (IF In(n, key) /\ Succeeded(n) /\ Finished(n)
          THEN LET message == MessageIn(log, n)
                   user == [role |-> "user", content |-> message.content]
               IN  <<IF message.guild = None THEN user ELSE Cleaned(user),
                     [role |-> "assistant", content |-> EventsOf(n)[4].answer]>>
          ELSE <<>>)

\* the most recent 20 entries
MostRecent(entries) ==
    SubSeq(entries, Max(1, Len(entries) - HistoryLimit + 1), Len(entries))

\* C34: when no message is being handled, the history of every DM and of
\* every channel is user_1, assistant_1, ..., user_k, assistant_k of its
\* successful exchanges, cut to the most recent 20 entries: nothing is
\* stored twice and no history holds more than 20 entries.
C34_HistoryIsTheExchanges ==
    task = NoTask =>
        /\ \A a \in DOMAIN dm_histories :
              /\ dm_histories[a] = MostRecent(Exchanges(arrived, InDm, a))
              /\ Len(dm_histories[a]) <= HistoryLimit
        /\ \A c \in DOMAIN channel_histories :
              /\ channel_histories[c] = MostRecent(Exchanges(arrived, InChannel, c))
              /\ Len(channel_histories[c]) <= HistoryLimit

=============================================================================
